---- MODULE Spec2Model ----
(***************************************************************************)
(* Model of the query-routing / retrieval / synthesis core of the EV       *)
(* factory analytics agent: PlanningAgent.plan_query (planning_agent.py),  *)
(* LogRetriever.get_relevant_logs (log_analyzer.py) and                    *)
(* EVSmartFactoryAgent (rag_agent.py).                                     *)
(*                                                                         *)
(* A Python string is modelled as a sequence of tokens: the empty string   *)
(* is <<>>, concatenation is \o, and an f-string is the concatenation of   *)
(* its literal parts and of the values of its holes.                       *)
(***************************************************************************)
EXTENDS Integers, Sequences, FiniteSets, TLC

\* ---------------------------------------------------------------- bounds
MaxChunks == 2      \* longest stream the synthesis call returns
MaxNodes == 1       \* most nodes the retriever returns

\* ---------------------------------------------------------------- inputs
Questions == {"q1", "q2"}
Reasons == {"r1"}
ChunkTexts == {"a", "b"}
ErrorMessages == {"e1", "e2"}
\* a retrieved node: its similarity score in thousandths, and its text
Nodes == {[score |-> 874, text |-> "E-301 voltage drift"]}

Labels == {"CSV_ONLY", "LOGS_ONLY", "BOTH", "OUT_OF_SCOPE"}

\* Response texts of the planning LLM, as token sequences.  A JSON object
\* is "{" key value key value ... "}".
ObjectTexts ==
    {<<"{", "action", a, "reason", r, "}">> : a \in Labels \cup {"MAYBE"}, r \in Reasons}
    \cup {<<"{", "action", a, "}">> : a \in {"OUT_OF_SCOPE", "LOGS_ONLY"}}
    \cup {<<"{", "reason", r, "}">> : r \in Reasons}
    \cup {<<"{", "}">>}
NonMappingTexts == {<<"[", "]">>, <<"null">>, <<"42">>, <<"\"CSV_ONLY\"">>}
MalformedTexts == {<<"{", "action">>, <<"Sure,", "here", "is", "the", "plan">>, <<>>}
PlannerTexts == ObjectTexts \cup NonMappingTexts \cup MalformedTexts
PlannerResponses ==
    {[kind |-> "raise", text |-> <<>>]}
    \cup {[kind |-> "text", text |-> t] : t \in PlannerTexts}

\* ------------------------------------------------------- planning_agent.py
Max(S) == CHOOSE x \in S : \A y \in S : y <= x

\* json.loads on a token sequence: the members of an object, a later
\* duplicate key overriding an earlier one.
JsonObject(m) ==
    LET n == Len(m) \div 2
        keys == {m[2 * i - 1] : i \in 1..n}
    IN [k \in keys |-> m[2 * Max({i \in 1..n : m[2 * i - 1] = k})]]

EmptyDict == [k \in {} |-> ""]

JsonLoads(t) ==
    IF Len(t) >= 2 /\ t[1] = "{" /\ t[Len(t)] = "}" /\ Len(t) % 2 = 0
    THEN [ok |-> TRUE, type |-> "object", value |-> JsonObject(SubSeq(t, 2, Len(t) - 1))]
    ELSE IF t = <<"[", "]">>
    THEN [ok |-> TRUE, type |-> "array", value |-> EmptyDict]
    ELSE IF t = <<"null">>
    THEN [ok |-> TRUE, type |-> "null", value |-> EmptyDict]
    ELSE IF t = <<"42">>
    THEN [ok |-> TRUE, type |-> "number", value |-> EmptyDict]
    ELSE IF Len(t) = 1 /\ t[1] = "\"CSV_ONLY\""
    THEN [ok |-> TRUE, type |-> "string", value |-> EmptyDict]
    ELSE [ok |-> FALSE, type |-> "error", value |-> EmptyDict]

\* dict.get(key, default)
Get(d, k, default) == IF k \in DOMAIN d THEN d[k] ELSE default

Fallback == [action |-> "BOTH", reason |-> "Planner error fallback."]

\* json.loads called outside the try block
PlanQueryMutant(resp) ==
    IF resp.kind = "raise"
    THEN [kind |-> "return", plan |-> Fallback]
    ELSE LET p == JsonLoads(resp.text)
         IN IF ~p.ok
            THEN [kind |-> "raise", plan |-> Fallback]
            ELSE IF p.type # "object"
            THEN [kind |-> "return", plan |-> Fallback]
            ELSE [kind |-> "return", plan |-> p.value]

\* plan_query: everything between the LLM call and `return plan` is inside
\* try/except Exception; plan.get('action') in the print raises
\* AttributeError on a value that is not a dict.
PlanQuery(resp) ==
    IF resp.kind = "raise"
    THEN [kind |-> "return", plan |-> Fallback]
    ELSE LET p == JsonLoads(resp.text)
         IN IF ~p.ok
            THEN [kind |-> "return", plan |-> Fallback]
            ELSE IF p.type # "object"
            THEN [kind |-> "return", plan |-> Fallback]
            ELSE [kind |-> "return", plan |-> p.value]

\* --------------------------------------------------------- log_analyzer.py
RECURSIVE SeqsUpTo(_, _)
SeqsUpTo(S, n) ==
    IF n = 0 THEN {<<>>}
    ELSE LET shorter == SeqsUpTo(S, n - 1)
         IN shorter \cup {Append(s, x) : s \in {t \in shorter : Len(t) = n - 1}, x \in S}

RetrieverOutcomes ==
    {[kind |-> "raise", msg |-> e, nodes |-> <<>>] : e \in ErrorMessages}
    \cup {[kind |-> "nodes", msg |-> "", nodes |-> ns] : ns \in SeqsUpTo(Nodes, MaxNodes)}

LogHeader == "--- RELEVANT LOG ENTRIES (Retrieval) ---"
LogFooter == "----------------------------------------"

\* f"{score:.2f}" of a score given in thousandths
Fmt2f(s) ==
    LET h == (s + 5) \div 10
        frac == h % 100
    IN ToString(h \div 100) \o "." \o (IF frac < 10 THEN "0" ELSE "") \o ToString(frac)

\* the lines are built last node first
RECURSIVE NodeLinesMutant(_)
NodeLinesMutant(ns) ==
    IF ns = <<>> THEN <<>>
    ELSE NodeLinesMutant(Tail(ns))
         \o <<"[Score: ", Fmt2f(Head(ns).score), "] Content: ", Head(ns).text, "\n">>

RECURSIVE NodeLines(_)
NodeLines(ns) ==
    IF ns = <<>> THEN <<>>
    ELSE <<"[Score: ", Fmt2f(Head(ns).score), "] Content: ", Head(ns).text, "\n">>
         \o NodeLines(Tail(ns))

GetRelevantLogs(r) ==
    IF r.kind = "raise"
    THEN <<"Error retrieving logs: ", r.msg>>
    ELSE <<LogHeader>> \o NodeLines(r.nodes) \o <<LogFooter>>

\* get_relevant_logs is one try/except Exception around its whole body:
\* whether an exception leaves it
LogsRaises(r) == FALSE

MaxLogNodes == 2    \* most nodes of a retrieval checked on its own
LogTexts == {"E-301 voltage drift", "BMS reboot", "torque ok"}
LogScores == {874, 996, 50}
LogNodes == {[score |-> sc, text |-> t] : sc \in LogScores, t \in LogTexts}
LogOutcomes ==
    {[kind |-> "raise", msg |-> e, nodes |-> <<>>] : e \in ErrorMessages}
    \cup {[kind |-> "nodes", msg |-> "", nodes |-> ns] : ns \in SeqsUpTo(LogNodes, MaxLogNodes)}

\* ----------------------------------------------------- feedback_manager.py
MaxEntries == 2     \* most entries the feedback file holds
None == "<None>"
Ratings == {"positive", "negative"}
Comments == {None, "too long"}
Timestamps == {"2026-01-01 10:00:00"}
FbQueries == {"Why did v2.1.0 fail?"}
FbResponses == {"Voltage drift."}
NoFile == <<"<no file>">>

\* the entry save_feedback builds
Entry(rating, timestamp, query, response, comments) ==
    [rating |-> rating, timestamp |-> timestamp, query |-> query,
     response |-> response, comments |-> comments]

EntryKeys == <<"rating", "timestamp", "query", "response", "comments">>

\* json.dump: a string is written between quotes, None as null
DumpValue(v) == IF v = None THEN <<"null">> ELSE <<"\"", v, "\"">>

RECURSIVE DumpMembers(_, _)
DumpMembers(e, ks) ==
    IF ks = <<>> THEN <<>>
    ELSE <<"\"", Head(ks), "\"", ":">> \o DumpValue(e[Head(ks)])
         \o (IF Len(ks) > 1 THEN <<",">> ELSE <<>>) \o DumpMembers(e, Tail(ks))

DumpEntry(e) == <<"{">> \o DumpMembers(e, EntryKeys) \o <<"}">>

RECURSIVE DumpItems(_)
DumpItems(es) ==
    IF es = <<>> THEN <<>>
    ELSE DumpEntry(Head(es)) \o (IF Len(es) > 1 THEN <<",">> ELSE <<>>) \o DumpItems(Tail(es))

JsonDump(es) == <<"[">> \o DumpItems(es) \o <<"]">>

\* json.load: a parser over the tokens; fail stands for JSONDecodeError
At(t, i) == IF i \in 1..Len(t) THEN t[i] ELSE "<eof>"
ParseFail == [ok |-> FALSE, val |-> <<>>, next |-> 0]

ParseString(t, i) ==
    IF At(t, i) = "\"" /\ At(t, i + 2) = "\""
    THEN [ok |-> TRUE, val |-> At(t, i + 1), next |-> i + 3]
    ELSE [ok |-> FALSE, val |-> "", next |-> 0]

ParseValue(t, i) ==
    IF At(t, i) = "null" THEN [ok |-> TRUE, val |-> None, next |-> i + 1]
    ELSE ParseString(t, i)

\* the members of an object from position i on, keys and vals read so far
RECURSIVE ParseMembers(_, _, _, _)
ParseMembers(t, i, keys, vals) ==
    LET k == ParseString(t, i)
        v == ParseValue(t, k.next + 1)
        ks == Append(keys, k.val)
        vs == Append(vals, v.val)
        obj == [key \in {ks[n] : n \in DOMAIN ks} |->
                   vs[Max({n \in DOMAIN ks : ks[n] = key})]]
    IN IF ~k.ok \/ At(t, k.next) # ":" THEN ParseFail
       ELSE IF ~v.ok THEN ParseFail
       ELSE IF At(t, v.next) = "," THEN ParseMembers(t, v.next + 1, ks, vs)
       ELSE IF At(t, v.next) = "}" THEN [ok |-> TRUE, val |-> <<obj>>, next |-> v.next + 1]
       ELSE ParseFail

\* the items of a list from position i on, acc the objects read so far
RECURSIVE ParseItems(_, _, _)
ParseItems(t, i, acc) ==
    IF At(t, i) # "{" THEN ParseFail
    ELSE LET o == ParseMembers(t, i + 1, <<>>, <<>>)
         IN IF ~o.ok THEN ParseFail
            ELSE IF At(t, o.next) = "," THEN ParseItems(t, o.next + 1, acc \o o.val)
            ELSE IF At(t, o.next) = "]" /\ o.next = Len(t)
            THEN [ok |-> TRUE, val |-> acc \o o.val, next |-> o.next + 1]
            ELSE ParseFail

JsonLoad(t) ==
    IF t = <<"[", "]">> THEN [ok |-> TRUE, val |-> <<>>, next |-> 3]
    ELSE IF At(t, 1) = "[" THEN ParseItems(t, 2, <<>>)
    ELSE ParseFail

\* _load_data: [] when the file is absent or does not parse
LoadFeedback(file) ==
    IF file = NoFile THEN <<>>
    ELSE IF JsonLoad(file).ok THEN JsonLoad(file).val ELSE <<>>

\* the file is rewritten with the new entry alone
AppendEntryMutant(data, entry) == <<entry>>

\* data.append(entry)
AppendEntry(data, entry) == Append(data, entry)

\* ------------------------------------------------------ slide_generator.py
\* The text handed to add_summary_slide is a sequence of pieces: a newline,
\* a <br/> tag, another HTML tag, a run of spaces, or a run of words (which
\* neither starts nor ends with white space) of a given number of characters.
MaxTextLen == 5     \* most pieces of a text handed to add_summary_slide
NL == "\n"
Spaces == "  "
WordRuns == {"words300", "words449", "words750"}
Pieces == {NL, "<br/>", "<b>", Spaces} \cup WordRuns

\* len() of a piece
PieceLen(p) ==
    IF p = NL THEN 1
    ELSE IF p = "<br/>" THEN 5
    ELSE IF p = "<b>" THEN 3
    ELSE IF p = Spaces THEN 2
    ELSE IF p = "words300" THEN 300
    ELSE IF p = "words449" THEN 449
    ELSE 750

RECURSIVE TextLen(_)
TextLen(t) == IF t = <<>> THEN 0 ELSE PieceLen(Head(t)) + TextLen(Tail(t))

IsWhite(p) == p \in {NL, Spaces}

\* str.strip()
RECURSIVE LStrip(_)
LStrip(t) == IF t # <<>> /\ IsWhite(Head(t)) THEN LStrip(Tail(t)) ELSE t
RECURSIVE RStrip(_)
RStrip(t) ==
    IF t # <<>> /\ IsWhite(t[Len(t)]) THEN RStrip(SubSeq(t, 1, Len(t) - 1)) ELSE t
Strip(t) == RStrip(LStrip(t))

\* re.sub(r'<br\s*/?>', '\n', text)
RECURSIVE ReplaceBr(_)
ReplaceBr(t) ==
    IF t = <<>> THEN <<>>
    ELSE <<IF Head(t) = "<br/>" THEN NL ELSE Head(t)>> \o ReplaceBr(Tail(t))

\* re.sub(r'<[^>]+>', '', text)
RemoveTags(t) == SelectSeq(t, LAMBDA p : p \notin {"<br/>", "<b>"})

CleanText(t) == IF t = <<>> THEN <<>> ELSE Strip(RemoveTags(ReplaceBr(t)))

\* str.split('\n'): the paragraphs, one more than there are newlines
RECURSIVE SplitLines(_, _)
SplitLines(t, cur) ==
    IF t = <<>> THEN <<cur>>
    ELSE IF Head(t) = NL THEN <<cur>> \o SplitLines(Tail(t), <<>>)
    ELSE SplitLines(Tail(t), Append(cur, Head(t)))

MAX_CHARS == 750

\* the overflowing paragraph is not carried over to the next chunk
AddParagraphMutant(state, p) ==
    IF Strip(p) = <<>> THEN state
    ELSE IF TextLen(state.cur) + TextLen(p) < MAX_CHARS
    THEN [chunks |-> state.chunks, cur |-> state.cur \o p \o <<NL>>]
    ELSE IF state.cur # <<>>
    THEN [chunks |-> Append(state.chunks, state.cur), cur |-> <<>>]
    ELSE [chunks |-> Append(state.chunks, p \o <<NL>>), cur |-> <<>>]

\* one iteration of `for p in paragraphs`
AddParagraph(state, p) ==
    IF Strip(p) = <<>> THEN state
    ELSE IF TextLen(state.cur) + TextLen(p) < MAX_CHARS
    THEN [chunks |-> state.chunks, cur |-> state.cur \o p \o <<NL>>]
    ELSE IF state.cur # <<>>
    THEN [chunks |-> Append(state.chunks, state.cur), cur |-> p \o <<NL>>]
    ELSE [chunks |-> Append(state.chunks, p \o <<NL>>), cur |-> <<>>]

RECURSIVE SplitLoop(_, _)
SplitLoop(ps, state) ==
    IF ps = <<>> THEN state ELSE SplitLoop(Tail(ps), AddParagraph(state, Head(ps)))

\* the last chunk is appended even when it is empty
FinishChunksMutant(state) == Append(state.chunks, state.cur)

\* if current_chunk: chunks.append(current_chunk)
FinishChunks(state) ==
    IF state.cur # <<>> THEN Append(state.chunks, state.cur) ELSE state.chunks

SplitIntoChunks(long_text) ==
    FinishChunks(SplitLoop(SplitLines(CleanText(long_text), <<>>),
                           [chunks |-> <<>>, cur |-> <<>>]))

\* the title of slide i of n
SlideTitle(slide_title, i, n) ==
    IF n > 1 THEN <<slide_title, " (", ToString(i), "/", ToString(n), ")">>
    ELSE <<slide_title>>

\* ------------------------------------------------------------ rag_agent.py
DataFrame(name) ==
    [columns |-> "columns of " \o name, head |-> "head(3) of " \o name, csv |-> "csv of " \o name]

\* load_data: the three tables, in the insertion order of data_files
LoadData ==
    <<[name |-> "Manufacturing", df |-> DataFrame("Manufacturing")],
      [name |-> "Performance", df |-> DataFrame("Performance")],
      [name |-> "Issues", df |-> DataFrame("Issues")]>>

\* load_data's loop over data_files from index i on, acc holding the tables
\* read so far, fs the set of tables whose file exists: sys.exit(1) at the
\* first missing file
RECURSIVE LoadFrom(_, _, _)
LoadFrom(i, acc, fs) ==
    IF i > Len(LoadData) THEN [ok |-> TRUE, dfs |-> acc]
    ELSE IF LoadData[i].name \in fs
    THEN LoadFrom(i + 1, Append(acc, LoadData[i]), fs)
    ELSE [ok |-> FALSE, dfs |-> acc]

\* a missing file is skipped instead of ending the process
LoadFilesMutant(fs) ==
    [ok |-> TRUE, dfs |-> SelectSeq(LoadData, LAMBDA t : t.name \in fs)]

LoadFiles(fs) == LoadFrom(1, <<>>, fs)

DataFileNames == {"Manufacturing", "Performance", "Issues"}

RECURSIVE SchemaSummary(_)
SchemaSummary(d) ==
    IF d = <<>> THEN <<>>
    ELSE <<"Dataset: ", Head(d).name, "Columns: ", Head(d).df.columns,
           "Preview:", Head(d).df.head>> \o SchemaSummary(Tail(d))

RECURSIVE CsvTables(_)
CsvTables(d) ==
    IF d = <<>> THEN <<>>
    ELSE <<"=== ", Head(d).name, " Data Table ===", Head(d).df.csv>> \o CsvTables(Tail(d))

DataSummaryOf(d) == <<"--- STRUCTURED DATA (Statistics) ---">> \o SchemaSummary(d)

NeedsCsvMutant(a) == a \in {"CSV_ONLY"}
NeedsCsv(a) == a \in {"CSV_ONLY", "BOTH"}
NeedsLogs(a) == a \in {"LOGS_ONLY", "BOTH"}

DefaultReason == "This query is not related to factory analytics."
SkippedByPlanner == <<"Skipped by Planner">>

\* the else branch leaves log_context empty
LogsUnavailableMutant == <<>>

LogsUnavailable == <<"Log analysis subsystem is unavailable.">>

RefusalMutant(r) ==
    <<"Out of Scope", "I am a specialized EV Factory AI Assistant.">>

Refusal(r) ==
    <<"Out of Scope", "Reason: ", r, "I am a specialized EV Factory AI Assistant.">>

SystemInstruction(a, r, summary, csv, logs) ==
    <<"You are the Chief Engineer", "PLANNING DECISION: ", a, "REASONING: ", r,
      "Data Schema Preview:">> \o summary
    \o <<"YOUR MISSION:", "Reference Data for your analysis:">> \o csv
    \o <<"Additionally, you have access to recent production logs">> \o logs
    \o <<"--- INSTRUCTIONS ---">>

ErrorTextMutant(e) == <<"Error: ">>

ErrorText(e) == <<"Error: ", e>>

\* the planner is asked again when it fell back
AfterPlanMutant(plan, a) ==
    IF Get(plan, "reason", "") = "Planner error fallback." THEN "created"
    ELSE IF a = "OUT_OF_SCOPE" THEN "refused" ELSE "execute"

\* the guardrail is missing
AfterPlanNoGuard(plan, a) == "execute"

\* where ask goes after the plan: the guardrail's yield, or Phase 2
AfterPlan(plan, a) == IF a = "OUT_OF_SCOPE" THEN "refused" ELSE "execute"

ResetLogContextMutant(old) == old

\* self.log_context = "" at the start of Phase 2
ResetLogContext(old) == <<>>

ForwardMutant(ys, chunk) == IF chunk = <<"b">> THEN ys ELSE Append(ys, chunk)

\* for chunk in response: yield chunk
Forward(ys, chunk) == Append(ys, chunk)

max_retries_mutant == 3 + 1

max_retries == 3
initial_wait == 2
backoff == 2

NoAttr == <<"<no attribute>">>
NoPlan == [unset |-> "<no attribute>"]
NoResponse == [kind |-> "none", text |-> <<>>]

\* ------------------------------------------------------------------ app.py
MaxAsks == 2        \* most prompts the dashboard's sessions submit, in all
MaxDecks == 1       \* most decks the Slides API creates

\* the browser sessions of the dashboard; load_agent is a cache_resource, so
\* all of them use one EVSmartFactoryAgent
Sessions == {1, 2}

\* what the user of session s types into the chat input
PromptOf(s) == "q" \o ToString(s)

\* the planning LLM's answers to a dashboard prompt: a well-formed plan
\* that skips the logs, asks for them, or declines
DashPlannerResponses(q) ==
    {[kind |-> "text", text |-> <<"{", "action", a, "reason", "r1", "}">>] :
        a \in {"CSV_ONLY", "LOGS_ONLY", "OUT_OF_SCOPE"}}

\* the log line the index holds for a prompt; the one for q2 happens to
\* hold the words the debug panel looks for
LogLineFor(q) ==
    IF q = "q1" THEN "E-301 voltage drift" ELSE "WARN No logs available from station 7"

\* what the retriever engine does for a dashboard prompt: it raises, or it
\* returns the log line for the prompt
DashRetrieverOutcomes(q) ==
    {[kind |-> "raise", msg |-> "e1", nodes |-> <<>>],
     [kind |-> "nodes", msg |-> "", nodes |-> <<[score |-> 874, text |-> LogLineFor(q)]>>]}

\* one synthesis attempt seen from the chat handler: the texts of the chunks
\* the stream delivers (a chunk's text may be empty), and whether the
\* attempt ends normally or raises
DashStreams ==
    {[chunks |-> <<<<>>, <<"a">>>>, ok |-> TRUE],
     [chunks |-> <<>>, ok |-> FALSE]}

NoneValue == <<"<None>">>

\* the session state after lines 93-102 of the first script run; of the
\* chat history, which is only displayed, the roles are kept
NewSessionState ==
    [messages |-> <<>>, last_response_content |-> NoneValue,
     last_log_context |-> NoneValue, last_csv_context |-> NoneValue]

\* Python truth value of a session-state text: None and "" are false
Truthy(text) == text \notin {NoneValue, <<>>}

\* the tokens of the model that have 'No logs available' as a substring
HoldsNoLogsAvailable(tok) == tok \in {"No logs available", "WARN No logs available from station 7"}

\* "No logs available" in text
NoLogsAvailableIn(text) == \E i \in DOMAIN text : HoldsNoLogsAvailable(text[i])

LogCaption(log_text) ==
    IF NoLogsAvailableIn(log_text)
    THEN "No relevant logs found for this query."
    ELSE "Dynamic content retrieved from LlamaIndex."

NoPanel == [shown |-> FALSE, log |-> <<>>, caption |-> "", csv |-> <<>>]

\* lines 186-205: the 'View Retrieved Context' expander of one script run
ViewContext(st, agent_log, agent_csv) ==
    IF Truthy(st["last_response_content"])
    THEN [shown |-> TRUE, log |-> agent_log, caption |-> LogCaption(agent_log),
          csv |-> agent_csv]
    ELSE NoPanel

\* lines 233-235: the link column of one script run
SlideLink(st) ==
    IF Truthy(st["last_response_content"]) /\ "slide_url" \in DOMAIN st
    THEN st["slide_url"] ELSE ""

\* f"https://docs.google.com/presentation/d/{presentation_id}", the
\* presentation ids being "1", "2", ...
DeckUrl(pid) == "https://docs.google.com/presentation/d/" \o pid

\* del d[k]
Without(d, k) == [x \in DOMAIN d \ {k} |-> d[x]]

\* d[k] = v
With(d, k, v) == [x \in DOMAIN d \cup {k} |-> IF x = k THEN v ELSE d[x]]

\* full_response after the chunks cs: only a chunk with text is added
RECURSIVE Accumulate(_, _)
Accumulate(full_response, cs) ==
    IF cs = <<>> THEN full_response
    ELSE Accumulate(full_response \o Head(cs), Tail(cs))

\* the new answer is stored but an earlier slide_url is kept
SaveAnswerMutant(st, full_response, agent_log, agent_csv) ==
    [[[[st EXCEPT !["messages"] = Append(@, "assistant")]
             EXCEPT !["last_response_content"] = full_response]
             EXCEPT !["last_log_context"] = agent_log]
             EXCEPT !["last_csv_context"] = agent_csv]

\* lines 171-181: history, the saved answer and contexts, slide_url removed
SaveAnswer(st, full_response, agent_log, agent_csv) ==
    Without([[[[st EXCEPT !["messages"] = Append(@, "assistant")]
                      EXCEPT !["last_response_content"] = full_response]
                      EXCEPT !["last_log_context"] = agent_log]
                      EXCEPT !["last_csv_context"] = agent_csv],
            "slide_url")

\* a session's ask generator that does not exist (yet)
NoAsk ==
    [pc |-> "none", question |-> "", action |-> "", reason |-> "", attempt |-> 0,
     wait_time |-> 0, full_response |-> <<>>, sent |-> <<>>, got_logs |-> NoAttr,
     captured |-> NoAttr, asks |-> 0]

NoSession == [closed |-> TRUE]

VARIABLES
    \* EVSmartFactoryAgent attributes
    log_retriever, dfs, data_summary, full_context_csv, log_context, csv_context,
    last_log_context, last_csv_context, last_plan, system_instruction,
    \* the frame of the running ask generator
    pc, question, action, reason, attempt, wait_time,
    \* what the environment observed of the running ask
    planner_resp, calls, sent_prompt, base, streamed, yielded, last_exc,
    \* the process: GEMINI_API_KEY set, the CSV files that exist, exit status
    api_key, files, exit_status

VARIABLES
    \* one call of LogRetriever.get_relevant_logs: what the retriever engine
    \* did, whether the call has returned, what it returned
    lg_outcome, lg_pc, lg_result

VARIABLES
    \* one call of SlideGenerator.add_summary_slide: its long_text, whether
    \* it has returned, its chunks, the _create_single_slide calls it made
    sl_text, sl_pc, sl_chunks, sl_requests

VARIABLES
    \* FeedbackManager: the feedback file, the last call made and what the
    \* last get_all_feedback returned; fb_saved lists what the caller saved
    \* since the last clear_log
    fb_file, fb_last, fb_got, fb_saved

VARIABLES
    \* the dashboard: each session's running ask generator (with what it
    \* observed), its st.session_state, what its last script run displayed
    \* in the debug panel and as slide link; the decks the Slides API holds
    threads, session_state, panel, link, decks

process == <<api_key, files, exit_status>>
logs == <<lg_outcome, lg_pc, lg_result>>
slides == <<sl_text, sl_pc, sl_chunks, sl_requests>>
feedback == <<fb_file, fb_last, fb_got, fb_saved>>
dash == <<threads, session_state, panel, link, decks>>
aux == <<logs, slides, feedback, dash>>
rest == <<process, aux>>
agent == <<log_retriever, dfs, data_summary, full_context_csv, log_context, csv_context,
           last_log_context, last_csv_context, last_plan, system_instruction>>
frame == <<pc, question, action, reason, attempt, wait_time>>
observed == <<planner_resp, calls, sent_prompt, base, streamed, yielded, last_exc>>
vars == <<agent, frame, observed, rest>>

Event(op, arg) == [op |-> op, arg |-> arg]

\* no call of get_relevant_logs under way
NoLogsCall ==
    /\ lg_outcome = [kind |-> "nodes", msg |-> "", nodes |-> <<>>]
    /\ lg_pc = "idle"
    /\ lg_result = NoAttr

\* no call of add_summary_slide under way
NoSlidesCall ==
    /\ sl_text = <<>>
    /\ sl_pc = "idle"
    /\ sl_chunks = <<>>
    /\ sl_requests = <<>>

\* no FeedbackManager in use
NoFeedback ==
    /\ fb_file = NoFile
    /\ fb_last = "none"
    /\ fb_got = <<>>
    /\ fb_saved = <<>>

\* no browser session has opened the dashboard
NoDash ==
    /\ threads = [s \in Sessions |-> NoAsk]
    /\ session_state = [s \in Sessions |-> NoSession]
    /\ panel = [s \in Sessions |-> NoPanel]
    /\ link = [s \in Sessions |-> ""]
    /\ decks = <<>>

NoAux == NoLogsCall /\ NoSlidesCall /\ NoFeedback /\ NoDash

Init ==
    /\ api_key \in BOOLEAN
    /\ files \in SUBSET DataFileNames
    /\ exit_status = 0
    /\ NoAux
    /\ log_retriever = FALSE
    /\ dfs = <<>>
    /\ data_summary = NoAttr
    /\ full_context_csv = NoAttr
    /\ log_context = NoAttr
    /\ csv_context = NoAttr
    /\ last_log_context = NoAttr
    /\ last_csv_context = NoAttr
    /\ last_plan = NoPlan
    /\ system_instruction = NoAttr
    /\ pc = "unborn"
    /\ question = ""
    /\ action = ""
    /\ reason = ""
    /\ attempt = 0
    /\ wait_time = 0
    /\ planner_resp = NoResponse
    /\ calls = <<>>
    /\ sent_prompt = <<>>
    /\ base = 0
    /\ streamed = <<>>
    /\ yielded = <<>>
    /\ last_exc = ""

\* EVSmartFactoryAgent(): the API key check, the attribute defaults, the
\* planner, the log retriever (None when its construction raises), load_data
Construct ==
    /\ pc = "unborn"
    /\ IF ~api_key
       THEN /\ pc' = "exited"
            /\ exit_status' = 1
            /\ UNCHANGED agent
       ELSE /\ last_log_context' = <<"No logs retrieved yet.">>
            /\ last_csv_context' = <<"No CSV context yet.">>
            /\ data_summary' = <<>>
            /\ full_context_csv' = <<>>
            /\ log_context' = <<>>
            /\ log_retriever' \in BOOLEAN
            /\ LET loaded == LoadFiles(files)
               IN /\ dfs' = loaded.dfs
                  /\ IF loaded.ok
                     THEN pc' = "idle" /\ exit_status' = exit_status
                     ELSE pc' = "exited" /\ exit_status' = 1
            /\ UNCHANGED <<csv_context, last_plan, system_instruction>>
    /\ UNCHANGED <<question, action, reason, attempt, wait_time, observed, api_key, files>>
    /\ UNCHANGED aux

\* agent.ask(question): creates the generator; its body has not started
Ask ==
    /\ pc \in {"idle", "done"}
    /\ \E q \in Questions : question' = q
    /\ pc' = "created"
    /\ action' = ""
    /\ reason' = ""
    /\ attempt' = 0
    /\ wait_time' = 0
    /\ planner_resp' = NoResponse
    /\ calls' = <<>>
    /\ sent_prompt' = <<>>
    /\ base' = 0
    /\ streamed' = <<>>
    /\ yielded' = <<>>
    /\ last_exc' = ""
    /\ UNCHANGED agent
    /\ UNCHANGED rest

\* Phase 1: plan_query, last_plan, the guardrail and its single yield
Plan ==
    /\ pc = "created"
    /\ \E resp \in PlannerResponses :
        LET out == PlanQuery(resp)
            a == Get(out.plan, "action", "BOTH")
            r == Get(out.plan, "reason", DefaultReason)
        IN /\ planner_resp' = resp
           /\ calls' = Append(calls, Event("plan", 0))
           /\ IF out.kind = "raise"
              THEN /\ pc' = "raised"
                   /\ UNCHANGED <<last_plan, action, reason, yielded>>
              ELSE /\ last_plan' = out.plan
                   /\ action' = a
                   /\ reason' = r
                   /\ pc' = AfterPlan(out.plan, a)
                   /\ yielded' = IF pc' = "refused"
                                 THEN Append(yielded, Refusal(r))
                                 ELSE yielded
    /\ UNCHANGED <<log_retriever, dfs, data_summary, full_context_csv, log_context,
                   csv_context, last_log_context, last_csv_context, system_instruction>>
    /\ UNCHANGED <<question, attempt, wait_time, sent_prompt, base, streamed, last_exc>>
    /\ UNCHANGED rest

\* the consumer resumes the generator after the refusal chunk: return
RefusedResume ==
    /\ pc = "refused"
    /\ pc' = "done"
    /\ UNCHANGED <<agent, question, action, reason, attempt, wait_time, observed>>
    /\ UNCHANGED rest

\* Phase 2, first half: reset of csv_context and log_context, then
\* get_structured_context when the plan asks for it
ExecuteCsv ==
    /\ pc = "execute"
    /\ csv_context' = <<>>
    /\ log_context' = ResetLogContext(log_context)
    /\ IF NeedsCsv(action)
       THEN /\ calls' = Append(calls, Event("csv", 0))
            /\ IF dfs = <<>>
               THEN UNCHANGED <<data_summary, full_context_csv>>
               ELSE /\ data_summary' = DataSummaryOf(dfs)
                    /\ full_context_csv' = CsvTables(dfs)
       ELSE UNCHANGED <<calls, data_summary, full_context_csv>>
    /\ pc' = "retrieve"
    /\ UNCHANGED <<log_retriever, dfs, last_log_context, last_csv_context, last_plan,
                   system_instruction>>
    /\ UNCHANGED <<question, action, reason, attempt, wait_time>>
    /\ UNCHANGED <<planner_resp, sent_prompt, base, streamed, yielded, last_exc>>
    /\ UNCHANGED rest

\* Phase 2, second half: log retrieval when the plan asks for it
RetrieveLogs ==
    /\ pc = "retrieve"
    /\ IF NeedsLogs(action)
       THEN IF log_retriever
            THEN \E r \in RetrieverOutcomes :
                    /\ log_context' = GetRelevantLogs(r)
                    /\ calls' = Append(calls, Event("retrieve", 0))
            ELSE /\ log_context' = LogsUnavailable
                 /\ UNCHANGED calls
       ELSE UNCHANGED <<log_context, calls>>
    /\ pc' = "assemble"
    /\ UNCHANGED <<log_retriever, dfs, data_summary, full_context_csv, csv_context,
                   last_log_context, last_csv_context, last_plan, system_instruction>>
    /\ UNCHANGED <<question, action, reason, attempt, wait_time>>
    /\ UNCHANGED <<planner_resp, sent_prompt, base, streamed, yielded, last_exc>>
    /\ UNCHANGED rest

\* last_*_context, the system prompt, and the retry loop's initial state
Assemble ==
    /\ pc = "assemble"
    /\ last_csv_context' = IF full_context_csv # <<>> THEN full_context_csv ELSE SkippedByPlanner
    /\ last_log_context' = IF log_context # <<>> THEN log_context ELSE SkippedByPlanner
    /\ system_instruction' =
           SystemInstruction(action, reason, data_summary, full_context_csv, log_context)
    /\ attempt' = 0
    /\ wait_time' = initial_wait
    /\ pc' = "synth"
    /\ UNCHANGED <<log_retriever, dfs, data_summary, full_context_csv, log_context,
                   csv_context, last_plan>>
    /\ UNCHANGED <<question, action, reason, observed>>
    /\ UNCHANGED rest

\* the retry does not count the failed attempt
HandlerMutant(e, cs) ==
    /\ last_exc' = e
    /\ calls' = Append(cs, Event("sleep", wait_time))
    /\ wait_time' = wait_time * backoff
    /\ attempt' = attempt
    /\ pc' = "synth"
    /\ yielded' = yielded

\* except Exception as e: after the events cs, with the exception e
Handler(e, cs) ==
    /\ last_exc' = e
    /\ IF attempt < max_retries - 1
       THEN /\ calls' = Append(cs, Event("sleep", wait_time))
            /\ wait_time' = wait_time * backoff
            /\ attempt' = attempt + 1
            /\ pc' = "synth"
            /\ yielded' = yielded
       ELSE /\ calls' = cs
            /\ yielded' = Append(yielded, ErrorText(e))
            /\ pc' = "errored"
            /\ UNCHANGED <<wait_time, attempt>>

\* generate_content_stream(contents=self.system_instruction, ...)
SynthCall ==
    /\ pc = "synth"
    /\ sent_prompt' = system_instruction
    /\ base' = Len(yielded)
    /\ streamed' = <<>>
    /\ LET cs == Append(calls, Event("synth", 0))
       IN \/ /\ pc' = "streaming"
             /\ calls' = cs
             /\ UNCHANGED <<attempt, wait_time, yielded, last_exc>>
          \/ \E e \in ErrorMessages : Handler(e, Append(cs, Event("raise", 0)))
    /\ UNCHANGED <<agent, question, action, reason, planner_resp>>
    /\ UNCHANGED rest

\* for chunk in response: yield chunk / return, or the stream raises
StreamNext ==
    /\ pc = "streaming"
    /\ \/ \E c \in ChunkTexts :
             /\ Len(streamed) < MaxChunks
             /\ streamed' = Append(streamed, <<c>>)
             /\ yielded' = Forward(yielded, <<c>>)
             /\ UNCHANGED <<pc, attempt, wait_time, calls, last_exc>>
       \/ /\ pc' = "done"
          /\ UNCHANGED <<attempt, wait_time, calls, streamed, yielded, last_exc>>
       \/ /\ \E e \in ErrorMessages : Handler(e, Append(calls, Event("raise", 0)))
          /\ UNCHANGED streamed
    /\ UNCHANGED <<agent, question, action, reason, planner_resp, sent_prompt, base>>
    /\ UNCHANGED rest

\* the consumer resumes the generator after the error chunk: return
ErrorResume ==
    /\ pc = "errored"
    /\ pc' = "done"
    /\ UNCHANGED <<agent, question, action, reason, attempt, wait_time, observed>>
    /\ UNCHANGED rest

Next ==
    \/ Construct
    \/ Ask
    \/ Plan
    \/ RefusedResume
    \/ ExecuteCsv
    \/ RetrieveLogs
    \/ Assemble
    \/ SynthCall
    \/ StreamNext
    \/ ErrorResume

Spec == Init /\ [][Next]_vars

\* a step of the ask generator, taken when its consumer asks for the next
\* item
Resume ==
    \/ Plan
    \/ RefusedResume
    \/ ExecuteCsv
    \/ RetrieveLogs
    \/ Assemble
    \/ SynthCall
    \/ StreamNext
    \/ ErrorResume

\* the consumer iterates the generator to exhaustion, every call the
\* generator makes returns or raises, and a stream ends
SpecLive == Init /\ [][Next]_vars /\ WF_vars(Resume)

\* no process, no agent: the state the component specifications start from
NoProcess ==
    /\ api_key = FALSE
    /\ files = {}
    /\ exit_status = 0
    /\ log_retriever = FALSE
    /\ dfs = <<>>
    /\ data_summary = NoAttr
    /\ full_context_csv = NoAttr
    /\ log_context = NoAttr
    /\ csv_context = NoAttr
    /\ last_log_context = NoAttr
    /\ last_csv_context = NoAttr
    /\ last_plan = NoPlan
    /\ system_instruction = NoAttr
    /\ pc = "unborn"
    /\ question = ""
    /\ action = ""
    /\ reason = ""
    /\ attempt = 0
    /\ wait_time = 0
    /\ planner_resp = NoResponse
    /\ calls = <<>>
    /\ sent_prompt = <<>>
    /\ base = 0
    /\ streamed = <<>>
    /\ yielded = <<>>
    /\ last_exc = ""

main == <<agent, frame, observed, process>>

\* ----------------------------------- LogRetriever.get_relevant_logs alone
InitLogs ==
    /\ NoProcess
    /\ NoSlidesCall
    /\ NoFeedback
    /\ NoDash
    /\ lg_outcome \in LogOutcomes
    /\ lg_pc = "called"
    /\ lg_result = NoAttr

\* retriever_engine.retrieve, the formatting loop, the except clause
LogsReturn ==
    /\ lg_pc = "called"
    /\ lg_pc' = IF LogsRaises(lg_outcome) THEN "raised" ELSE "returned"
    /\ lg_result' = IF LogsRaises(lg_outcome) THEN NoAttr ELSE GetRelevantLogs(lg_outcome)
    /\ UNCHANGED <<lg_outcome, main, slides, feedback, dash>>

NextLogs == LogsReturn

SpecLogs == InitLogs /\ [][NextLogs]_vars

\* -------------------------------- SlideGenerator.add_summary_slide alone
InitSlides ==
    /\ NoProcess
    /\ NoLogsCall
    /\ NoFeedback
    /\ NoDash
    /\ sl_text \in SeqsUpTo(Pieces, MaxTextLen)
    /\ sl_pc = "called"
    /\ sl_chunks = <<>>
    /\ sl_requests = <<>>

\* the split, then one _create_single_slide call per chunk; a failing
\* Slides API call is swallowed inside _create_single_slide
AddSummarySlide ==
    /\ sl_pc = "called"
    /\ sl_pc' = "done"
    /\ sl_chunks' = SplitIntoChunks(sl_text)
    /\ \E created \in [1..Len(sl_chunks') -> BOOLEAN] :
          sl_requests' =
              [i \in 1..Len(sl_chunks') |->
                  [title |-> SlideTitle("Analysis summary", i, Len(sl_chunks')),
                   content |-> sl_chunks'[i],
                   created |-> created[i]]]
    /\ UNCHANGED <<sl_text, main, logs, feedback, dash>>

NextSlides == AddSummarySlide

SpecSlides == InitSlides /\ [][NextSlides]_vars

\* ------------------------------------------------- FeedbackManager alone
\* the file is absent, or left unreadable by something else
InitFeedback ==
    /\ NoProcess
    /\ NoLogsCall
    /\ NoSlidesCall
    /\ NoDash
    /\ fb_file \in {NoFile, <<>>, <<"[", "{">>}
    /\ fb_last = "none"
    /\ fb_got = <<>>
    /\ fb_saved = <<>>

SaveFeedback ==
    /\ Len(fb_saved) < MaxEntries
    /\ \E rating \in Ratings, ts \in Timestamps, q \in FbQueries, resp \in FbResponses,
          c \in Comments :
          /\ fb_file' = JsonDump(AppendEntry(LoadFeedback(fb_file),
                                             Entry(rating, ts, q, resp, c)))
          /\ fb_saved' = Append(fb_saved, [rating |-> rating, query |-> q,
                                           response |-> resp, comments |-> c])
    /\ fb_last' = "save"
    /\ UNCHANGED <<fb_got, main, logs, slides, dash>>

GetAllFeedback ==
    /\ fb_got' = LoadFeedback(fb_file)
    /\ fb_last' = "get"
    /\ UNCHANGED <<fb_file, fb_saved, main, logs, slides, dash>>

ClearLog ==
    /\ fb_file' = NoFile
    /\ fb_saved' = <<>>
    /\ fb_last' = "clear"
    /\ UNCHANGED <<fb_got, main, logs, slides, dash>>

NextFeedback ==
    \/ SaveFeedback
    \/ GetAllFeedback
    \/ ClearLog

SpecFeedback == InitFeedback /\ [][NextFeedback]_vars

\* ------------------------------------------------- the dashboard (app.py)
\* what a dashboard step leaves alone: the command-line consumer's ask and
\* the components checked on their own
cli == <<frame, observed, process, logs, slides, feedback>>

\* the prompts submitted so far
Asked == threads[1].asks + threads[2].asks

\* the first script run of a session: load_agent returns the cached agent,
\* lines 93-102 create the session state, there is no answer to show
FirstRun(s) ==
    /\ pc = "idle"
    /\ session_state[s] = NoSession
    /\ session_state' = [session_state EXCEPT ![s] = NewSessionState]
    /\ panel' = [panel EXCEPT ![s] = ViewContext(NewSessionState, last_log_context,
                                                 last_csv_context)]
    /\ link' = [link EXCEPT ![s] = SlideLink(NewSessionState)]
    /\ UNCHANGED <<threads, decks, agent, cli>>

\* lines 113-158: the prompt is appended to the history and agent.ask
\* creates the generator, in the session's script thread
SubmitPrompt(s) ==
    /\ pc = "idle"
    /\ session_state[s] # NoSession
    /\ threads[s].pc = "none"
    /\ Asked < MaxAsks
    /\ session_state' = [session_state EXCEPT ![s]["messages"] = Append(@, "user")]
    /\ threads' = [threads EXCEPT ![s] =
                      [NoAsk EXCEPT !.pc = "created", !.question = PromptOf(s),
                                    !.asks = threads[s].asks + 1]]
    /\ UNCHANGED <<panel, link, decks, agent, cli>>

\* ask, Phase 1, in the thread of session s; the refusal chunk is added to
\* full_response and the generator returns
DashPlan(s) ==
    /\ threads[s].pc = "created"
    /\ \E resp \in DashPlannerResponses(threads[s].question) :
        LET out == PlanQuery(resp)
            a == Get(out.plan, "action", "BOTH")
            r == Get(out.plan, "reason", DefaultReason)
        IN /\ last_plan' = out.plan
           /\ threads' = [threads EXCEPT ![s] =
                 IF AfterPlan(out.plan, a) = "refused"
                 THEN [@ EXCEPT !.action = a, !.reason = r, !.pc = "exhausted",
                                !.full_response = Accumulate(@, <<Refusal(r)>>)]
                 ELSE [@ EXCEPT !.action = a, !.reason = r, !.pc = "execute"]]
    /\ UNCHANGED <<log_retriever, dfs, data_summary, full_context_csv, log_context,
                   csv_context, last_log_context, last_csv_context, system_instruction>>
    /\ UNCHANGED <<session_state, panel, link, decks, cli>>

\* ask, lines 134-138, in the thread of session s
DashExecuteCsv(s) ==
    /\ threads[s].pc = "execute"
    /\ csv_context' = <<>>
    /\ log_context' = ResetLogContext(log_context)
    /\ IF NeedsCsv(threads[s].action) /\ dfs # <<>>
       THEN /\ data_summary' = DataSummaryOf(dfs)
            /\ full_context_csv' = CsvTables(dfs)
       ELSE UNCHANGED <<data_summary, full_context_csv>>
    /\ threads' = [threads EXCEPT ![s].pc = "retrieve"]
    /\ UNCHANGED <<log_retriever, dfs, last_log_context, last_csv_context, last_plan,
                   system_instruction>>
    /\ UNCHANGED <<session_state, panel, link, decks, cli>>

\* ask, lines 140-146, in the thread of session s; got_logs is what this
\* ask's own Phase 2 put into log_context
DashRetrieve(s) ==
    /\ threads[s].pc = "retrieve"
    /\ IF NeedsLogs(threads[s].action)
       THEN IF log_retriever
            THEN \E r \in DashRetrieverOutcomes(threads[s].question) :
                    /\ log_context' = GetRelevantLogs(r)
                    /\ threads' = [threads EXCEPT ![s].pc = "assemble",
                                                  ![s].got_logs = GetRelevantLogs(r)]
            ELSE /\ log_context' = LogsUnavailable
                 /\ threads' = [threads EXCEPT ![s].pc = "assemble",
                                               ![s].got_logs = LogsUnavailable]
       ELSE /\ UNCHANGED log_context
            /\ threads' = [threads EXCEPT ![s].pc = "assemble", ![s].got_logs = <<>>]
    /\ UNCHANGED <<log_retriever, dfs, data_summary, full_context_csv, csv_context,
                   last_log_context, last_csv_context, last_plan, system_instruction>>
    /\ UNCHANGED <<session_state, panel, link, decks, cli>>

\* ask, lines 148-190, in the thread of session s; captured is what this
\* ask stored in last_log_context and last_csv_context
DashAssemble(s) ==
    /\ threads[s].pc = "assemble"
    /\ last_csv_context' = IF full_context_csv # <<>> THEN full_context_csv ELSE SkippedByPlanner
    /\ last_log_context' = IF log_context # <<>> THEN log_context ELSE SkippedByPlanner
    /\ system_instruction' =
           SystemInstruction(threads[s].action, threads[s].reason, data_summary,
                             full_context_csv, log_context)
    /\ threads' = [threads EXCEPT ![s].pc = "synth", ![s].attempt = 0,
                                  ![s].wait_time = initial_wait,
                                  ![s].captured = <<last_log_context', last_csv_context'>>]
    /\ UNCHANGED <<log_retriever, dfs, data_summary, full_context_csv, log_context,
                   csv_context, last_plan>>
    /\ UNCHANGED <<session_state, panel, link, decks, cli>>

\* one pass of the retry loop in the thread of session s: the call with
\* contents=self.system_instruction, the chunks the handler adds to
\* full_response, then return, or the except clause
DashSynth(s) ==
    /\ threads[s].pc = "synth"
    /\ \E o \in DashStreams :
        LET got == Accumulate(threads[s].full_response, o.chunks)
        IN threads' = [threads EXCEPT ![s] =
              IF o.ok
              THEN [@ EXCEPT !.sent = system_instruction, !.full_response = got,
                             !.pc = "exhausted"]
              ELSE IF @.attempt < max_retries - 1
              THEN [@ EXCEPT !.sent = system_instruction, !.full_response = got,
                             !.attempt = @ + 1, !.wait_time = @ * backoff]
              ELSE [@ EXCEPT !.sent = system_instruction,
                             !.full_response = Accumulate(got, <<ErrorText("e1")>>),
                             !.pc = "exhausted"]]
    /\ UNCHANGED <<agent, session_state, panel, link, decks, cli>>

\* the generator is exhausted: lines 168-181, then the rest of the script
\* run, lines 186-235 with the export button not pressed
FinishAnswer(s) ==
    /\ threads[s].pc = "exhausted"
    /\ LET st == SaveAnswer(session_state[s], threads[s].full_response,
                            last_log_context, last_csv_context)
       IN /\ session_state' = [session_state EXCEPT ![s] = st]
          /\ panel' = [panel EXCEPT ![s] = ViewContext(st, last_log_context,
                                                       last_csv_context)]
          /\ link' = [link EXCEPT ![s] = SlideLink(st)]
    /\ threads' = [threads EXCEPT ![s] =
                      [NoAsk EXCEPT !.captured = threads[s].captured,
                                    !.asks = threads[s].asks]]
    /\ UNCHANGED <<decks, agent, cli>>

\* a script run with no prompt and the export button not pressed
Rerun(s) ==
    /\ session_state[s] # NoSession
    /\ threads[s].pc = "none"
    /\ panel' = [panel EXCEPT ![s] = ViewContext(session_state[s], last_log_context,
                                                 last_csv_context)]
    /\ link' = [link EXCEPT ![s] = SlideLink(session_state[s])]
    /\ UNCHANGED <<threads, session_state, decks, agent, cli>>

\* a script run with the export button pressed: SlideGenerator() raises, or
\* create_presentation raises after the deck was created, or the deck is
\* created, filled from last_response_content and its URL stored
ExportSlides(s) ==
    /\ session_state[s] # NoSession
    /\ threads[s].pc = "none"
    /\ Truthy(session_state[s]["last_response_content"])
    /\ Len(decks) < MaxDecks
    /\ panel' = [panel EXCEPT ![s] = ViewContext(session_state[s], last_log_context,
                                                 last_csv_context)]
    /\ \E outcome \in {"no service", "create raises", "done"} :
        LET pid == ToString(Len(decks) + 1)
            st == IF outcome = "done"
                  THEN With(session_state[s], "slide_url", DeckUrl(pid))
                  ELSE session_state[s]
        IN /\ decks' =
                 IF outcome = "no service" THEN decks
                 ELSE Append(decks,
                        [id |-> pid,
                         summary |-> IF outcome = "done"
                                     THEN session_state[s]["last_response_content"]
                                     ELSE NoneValue])
           /\ session_state' = [session_state EXCEPT ![s] = st]
           /\ link' = [link EXCEPT ![s] = SlideLink(st)]
    /\ UNCHANGED <<threads, agent, cli>>

NextDash ==
    \/ Construct
    \/ \E s \in Sessions : FirstRun(s)
    \/ \E s \in Sessions : SubmitPrompt(s)
    \/ \E s \in Sessions : DashPlan(s)
    \/ \E s \in Sessions : DashExecuteCsv(s)
    \/ \E s \in Sessions : DashRetrieve(s)
    \/ \E s \in Sessions : DashAssemble(s)
    \/ \E s \in Sessions : DashSynth(s)
    \/ \E s \in Sessions : FinishAnswer(s)
    \/ \E s \in Sessions : Rerun(s)
    \/ \E s \in Sessions : ExportSlides(s)

SpecDash == Init /\ [][NextDash]_vars

\* the dashboard with one browser session
NextSession ==
    \/ Construct
    \/ FirstRun(1)
    \/ SubmitPrompt(1)
    \/ DashPlan(1)
    \/ DashExecuteCsv(1)
    \/ DashRetrieve(1)
    \/ DashAssemble(1)
    \/ DashSynth(1)
    \/ FinishAnswer(1)
    \/ Rerun(1)
    \/ ExportSlides(1)

SpecSession == Init /\ [][NextSession]_vars

TypeOK ==
    /\ pc \in {"unborn", "exited", "idle", "created", "refused", "execute", "retrieve", "assemble",
               "synth", "streaming", "errored", "done", "raised"}
    /\ attempt \in 0..(max_retries - 1)

\* ------------------------------------------------------------------ claims
Called(op) == \E i \in DOMAIN calls : calls[i].op = op
CountOf(op) == Cardinality({i \in DOMAIN calls : calls[i].op = op})
Contains(text, tok) == \E i \in DOMAIN text : text[i] = tok

\* the running (or finished) ask is in scope and its Phase 2 is over
PastRetrieval ==
    \/ pc \in {"assemble", "synth", "streaming", "errored"}
    \/ pc = "done" /\ action # "OUT_OF_SCOPE"

\* C1: once Phase 2 of an in-scope ask is over, get_structured_context was
\* called iff the action is CSV_ONLY or BOTH, and get_relevant_logs was
\* called iff the action is LOGS_ONLY or BOTH and a log retriever exists.
C1_RetrievalFollowsPlan ==
    PastRetrieval =>
        /\ Called("csv") <=> action \in {"CSV_ONLY", "BOTH"}
        /\ Called("retrieve") <=> (action \in {"LOGS_ONLY", "BOTH"} /\ log_retriever)

C1_Witness ==
    /\ pc = "done"
    /\ action = "BOTH"
    /\ log_retriever
    /\ Called("csv")
    /\ Called("retrieve")

\* the tokens that carry table data: to_csv and head(3) of each table
CsvDataTokens ==
    {dfs[i].df.csv : i \in DOMAIN dfs} \cup {dfs[i].df.head : i \in DOMAIN dfs}

\* C2: a prompt sent to the synthesis call by an ask whose action is
\* LOGS_ONLY contains no CSV table data.
C2_LogsOnlyPromptHasNoCsv ==
    (action = "LOGS_ONLY" /\ sent_prompt # <<>>) =>
        \A tok \in CsvDataTokens : ~Contains(sent_prompt, tok)

Planned == pc \notin {"unborn", "exited", "idle", "created"}

\* C3: the plan plan_query returned has an 'action' among the four labels
\* and a 'reason'.
C3_PlanIsLabelled ==
    Planned =>
        /\ "action" \in DOMAIN last_plan
        /\ last_plan["action"] \in Labels
        /\ "reason" \in DOMAIN last_plan

\* C4: plan_query never raises, and on a failing LLM call, on text that is
\* not JSON and on JSON that is not a mapping it returns the fallback plan
\* {action: BOTH, reason: 'Planner error fallback.'}.
C4_PlannerFallback ==
    /\ pc # "raised"
    /\ (/\ Planned
        /\ \/ planner_resp.kind = "raise"
           \/ planner_resp.text \in MalformedTexts \cup NonMappingTexts)
       => /\ DOMAIN last_plan = {"action", "reason"}
          /\ last_plan["action"] = "BOTH"
          /\ last_plan["reason"] = "Planner error fallback."

C4_Witness ==
    /\ pc = "execute"
    /\ planner_resp.kind = "text"
    /\ planner_resp.text = <<"[", "]">>
    /\ last_plan["action"] = "BOTH"

\* C5: an OUT_OF_SCOPE ask yields one chunk, the refusal message with the
\* planner's reason in it, and ends; it builds no CSV context, retrieves no
\* logs and makes no synthesis call.
C5_OutOfScopeRefusal ==
    (Planned /\ action = "OUT_OF_SCOPE") =>
        /\ pc \in {"refused", "done"}
        /\ Len(yielded) = 1
        /\ yielded[1][1] = "Out of Scope"
        /\ "reason" \in DOMAIN last_plan => Contains(yielded[1], last_plan["reason"])
        /\ calls = <<Event("plan", 0)>>
        /\ sent_prompt = <<>>

C5_Witness ==
    /\ pc = "done"
    /\ action = "OUT_OF_SCOPE"
    /\ "reason" \in DOMAIN last_plan
    /\ Len(yielded) = 1

\* C6: an ask makes one planning call, never a second one; the planning
\* call precedes every CSV context building and log retrieval, and these
\* precede every synthesis call.
C6_PlanThenRetrieveThenSynth ==
    /\ CountOf("plan") <= 1
    /\ Planned => CountOf("plan") = 1
    /\ \A i, j \in DOMAIN calls :
          (calls[i].op = "plan" /\ calls[j].op \in {"csv", "retrieve", "synth"}) => i < j
    /\ \A i, j \in DOMAIN calls :
          (calls[i].op \in {"csv", "retrieve"} /\ calls[j].op = "synth") => i < j

C6_Witness ==
    /\ pc = "done"
    /\ Called("csv")
    /\ Called("retrieve")
    /\ CountOf("synth") = 2

Sleeps == SelectSeq(calls, LAMBDA ev : ev.op = "sleep")

\* C7: at most 3 synthesis attempts; every attempt but the first directly
\* follows a raise of the previous one and a wait; the waits are 2 s then
\* 4 s; there is no wait after the third failure.
C7_RetryBackoff ==
    /\ CountOf("synth") <= 3
    /\ CountOf("synth") <= CountOf("raise") + 1
    /\ \A i \in DOMAIN calls :
          (calls[i].op = "synth" /\ \E j \in 1..(i - 1) : calls[j].op = "synth")
              => /\ calls[i - 1].op = "sleep"
                 /\ calls[i - 2].op = "raise"
    /\ \A i \in DOMAIN calls :
          calls[i].op = "sleep"
              => /\ calls[i - 1].op = "raise"
                 /\ IF i = Len(calls) THEN pc = "synth" ELSE calls[i + 1].op = "synth"
    /\ Len(Sleeps) <= 2
    /\ Len(Sleeps) >= 1 => Sleeps[1].arg = 2
    /\ Len(Sleeps) >= 2 => Sleeps[2].arg = 4
    /\ CountOf("raise") = 3 => calls[Len(calls)].op = "raise"

C7_Witness ==
    /\ pc = "done"
    /\ CountOf("raise") = 3
    /\ Len(Sleeps) = 2

ErrorChunks == {i \in DOMAIN yielded : Len(yielded[i]) >= 1 /\ yielded[i][1] = "Error: "}

\* C8: after three raising attempts ask has yielded one error chunk, as its
\* last item, carrying the last exception's message, and it ends normally;
\* no exception of the synthesis call leaves ask.
C8_ErrorChunkAfterThreeFailures ==
    /\ pc # "raised"
    /\ CountOf("raise") = 3 =>
          /\ pc \in {"errored", "done"}
          /\ Cardinality(ErrorChunks) = 1
          /\ yielded[Len(yielded)] = <<"Error: ", last_exc>>
    /\ CountOf("raise") < 3 => ErrorChunks = {}

C8_Witness ==
    /\ pc = "done"
    /\ CountOf("raise") = 3
    /\ Len(yielded) >= 2
    /\ last_exc = "e2"

\* the last synthesis attempt of the finished ask did not raise
StreamCompleted ==
    /\ pc = "done"
    /\ Called("synth")
    /\ CountOf("raise") < CountOf("synth")

\* C9: while a stream is forwarded and once it has completed, the items
\* ask yielded since that attempt's call are exactly the chunks received
\* from the stream, in order; after completion ask ends with no further
\* attempt (chunks forwarded by earlier, failed attempts precede them).
C9_StreamForwarded ==
    /\ (pc = "streaming" \/ StreamCompleted) =>
          /\ Len(yielded) = base + Len(streamed)
          /\ \A i \in 1..Len(streamed) : yielded[base + i] = streamed[i]
    /\ StreamCompleted => calls[Len(calls)].op = "synth"

C9_Witness ==
    /\ StreamCompleted
    /\ streamed = <<<<"a">>, <<"b">>>>
    /\ base = 1

\* text that only a log retrieval puts into log_context
LogTokens ==
    {LogHeader, LogFooter, "Error retrieving logs: "} \cup {n.text : n \in Nodes}
    \cup {LogsUnavailable[1]}

\* C10: a prompt sent by an ask whose action is CSV_ONLY contains no
\* retrieved log text, and once that ask is consumed last_log_context is
\* 'Skipped by Planner'.
C10_CsvOnlySkipsLogs ==
    /\ (action = "CSV_ONLY" /\ sent_prompt # <<>>) =>
          \A tok \in LogTokens : ~Contains(sent_prompt, tok)
    /\ (action = "CSV_ONLY" /\ pc = "done") =>
          last_log_context = <<"Skipped by Planner">>

C10_Witness ==
    /\ pc = "done"
    /\ action = "CSV_ONLY"
    /\ log_retriever
    /\ sent_prompt # <<>>
    /\ last_log_context = <<"Skipped by Planner">>

\* C11: a construction with the API key set and a CSV file missing ends the
\* process with exit status 1 and leaves no agent; whenever an agent exists
\* its dfs holds the tables Manufacturing, Performance and Issues and
\* nothing else; no step after the construction changes dfs.
C11_FailFastAndThreeTables ==
    /\ [](/\ (pc # "unborn" /\ files # {"Manufacturing", "Performance", "Issues"})
             => (pc = "exited" /\ exit_status = 1)
          /\ pc \notin {"unborn", "exited"}
             => /\ exit_status = 0
                /\ Len(dfs) = 3
                /\ {dfs[i].name : i \in DOMAIN dfs} = {"Manufacturing", "Performance", "Issues"})
    /\ [][pc # "unborn" => dfs' = dfs]_vars

C11_Witness ==
    /\ pc = "exited"
    /\ api_key
    /\ exit_status = 1
    /\ files = {"Manufacturing", "Issues"}
    /\ Len(dfs) = 1

\* the two decimals Python prints for the scores of LogScores
ScoreShown == [sc \in {874, 996, 50} |->
                 IF sc = 874 THEN "0.87" ELSE IF sc = 996 THEN "1.00" ELSE "0.05"]

\* C12: get_relevant_logs returns, never raises; when the retriever raised
\* it returns 'Error retrieving logs: <message>', otherwise the header, one
\* Score/Content line per node in the retriever's order, and the footer.
C12_LogsFormatted ==
    /\ lg_pc # "raised"
    /\ lg_pc = "returned" =>
          IF lg_outcome.kind = "raise"
          THEN lg_result = <<"Error retrieving logs: ", lg_outcome.msg>>
          ELSE LET n == Len(lg_outcome.nodes)
               IN /\ Len(lg_result) = 5 * n + 2
                  /\ lg_result[1] = "--- RELEVANT LOG ENTRIES (Retrieval) ---"
                  /\ lg_result[5 * n + 2] = "----------------------------------------"
                  /\ \A i \in 1..n :
                        /\ lg_result[5 * i - 3] = "[Score: "
                        /\ lg_result[5 * i - 2] = ScoreShown[lg_outcome.nodes[i].score]
                        /\ lg_result[5 * i - 1] = "] Content: "
                        /\ lg_result[5 * i] = lg_outcome.nodes[i].text
                        /\ lg_result[5 * i + 1] = "\n"

C12_Witness ==
    /\ lg_pc = "returned"
    /\ Len(lg_outcome.nodes) = 2
    /\ lg_outcome.nodes[1].text # lg_outcome.nodes[2].text
    /\ lg_outcome.nodes[1].score = 50
    /\ lg_outcome.nodes[2].score = 996

\* C13: add_summary_slide requests one slide per chunk, with the chunk as
\* its content; every chunk holds some text that is not white space; a text
\* without any word gives no slide.
C13_OneSlidePerNonEmptyChunk ==
    sl_pc = "done" =>
        /\ Len(sl_requests) = Len(sl_chunks)
        /\ \A i \in 1..Len(sl_chunks) :
              /\ sl_requests[i].content = sl_chunks[i]
              /\ \E k \in 1..Len(sl_chunks[i]) :
                    sl_chunks[i][k] \in {"words300", "words449", "words750"}
        /\ (\A k \in 1..Len(sl_text) :
               sl_text[k] \notin {"words300", "words449", "words750"})
           => sl_requests = <<>>

C13_Witness ==
    /\ sl_pc = "done"
    /\ Len(sl_requests) = 2
    /\ \E k \in 1..Len(sl_text) : sl_text[k] = "  "
    /\ \E k \in 1..Len(sl_text) : sl_text[k] = "<br/>"

\* the text after _clean_text, computed piece by piece: tags dropped, <br/>
\* turned into a newline
RECURSIVE Untagged(_)
Untagged(t) ==
    IF t = <<>> THEN <<>>
    ELSE IF Head(t) = "<b>" THEN Untagged(Tail(t))
    ELSE IF Head(t) = "<br/>" THEN <<"\n">> \o Untagged(Tail(t))
    ELSE <<Head(t)>> \o Untagged(Tail(t))

HasWord(line) == \E k \in 1..Len(line) : line[k] \in {"words300", "words449", "words750"}

\* the non-blank lines of a text, each followed by a newline; line is the
\* line read so far
RECURSIVE KeptLines(_, _)
KeptLines(t, line) ==
    IF t = <<>> THEN (IF HasWord(line) THEN line \o <<"\n">> ELSE <<>>)
    ELSE IF Head(t) = "\n"
    THEN (IF HasWord(line) THEN line \o <<"\n">> ELSE <<>>) \o KeptLines(Tail(t), <<>>)
    ELSE KeptLines(Tail(t), Append(line, Head(t)))

\* first and last word of a text, as positions (0 when it has no word)
FirstWord(t) == IF HasWord(t) THEN CHOOSE k \in 1..Len(t) : HasWord(<<t[k]>>) /\ ~HasWord(SubSeq(t, 1, k - 1)) ELSE 0
LastWord(t) == IF HasWord(t) THEN CHOOSE k \in 1..Len(t) : HasWord(<<t[k]>>) /\ ~HasWord(SubSeq(t, k + 1, Len(t))) ELSE 0

RECURSIVE Flatten(_)
Flatten(ss) == IF ss = <<>> THEN <<>> ELSE Head(ss) \o Flatten(Tail(ss))

\* C14: the chunks, concatenated in slide order, are the non-blank lines of
\* the cleaned text (white space stripped at its two ends), in their order,
\* each followed by a newline.
C14_SplitLosesNothing ==
    sl_pc = "done" =>
        LET u == Untagged(sl_text)
            cleaned == IF HasWord(u) THEN SubSeq(u, FirstWord(u), LastWord(u)) ELSE <<>>
        IN Flatten(sl_chunks) = KeptLines(cleaned, <<>>)

C14_Witness ==
    /\ sl_pc = "done"
    /\ Len(sl_chunks) = 2
    /\ sl_text = <<"  ", "words449", "<br/>", "  ", "words750">>

\* C15: what get_all_feedback returns is the list of the entries saved
\* since the last clear_log, in the order saved, each with its rating,
\* query, response and comments; get_all_feedback leaves the file as it is.
C15_FeedbackRoundTrip ==
    /\ [](fb_last = "get" =>
            /\ Len(fb_got) = Len(fb_saved)
            /\ \A i \in 1..Len(fb_saved) :
                  /\ fb_got[i]["rating"] = fb_saved[i].rating
                  /\ fb_got[i]["query"] = fb_saved[i].query
                  /\ fb_got[i]["response"] = fb_saved[i].response
                  /\ fb_got[i]["comments"] = fb_saved[i].comments)
    /\ [][fb_last' = "get" => fb_file' = fb_file]_vars

C15_Witness ==
    /\ fb_last = "get"
    /\ Len(fb_got) = 2
    /\ fb_got[1]["rating"] = "negative"
    /\ fb_got[1]["comments"] = "<None>"
    /\ fb_got[2]["rating"] = "positive"
    /\ fb_got[2]["comments"] = "too long"

\* C16: the content passed to the synthesis call contains the question,
\* the planning decision and the retrieved context.
C16_PromptHasQuestion ==
    sent_prompt # <<>> =>
        /\ Contains(sent_prompt, question)
        /\ Contains(sent_prompt, action)
        /\ \A i \in DOMAIN log_context : Contains(sent_prompt, log_context[i])

\* C17: the consumer gets answer chunks from at most one synthesis attempt
\* of an ask: no attempt forwards a chunk when an earlier one already did.
C17_ChunksFromOneAttempt == ~(base > 0 /\ streamed # <<>>)

\* C18: a plan whose 'action' is missing or is none of the four labels is
\* executed as BOTH: the CSV context is built and, when there is a log
\* retriever, the logs are retrieved.
C18_UnknownActionIsBoth ==
    (PastRetrieval /\ ("action" \notin DOMAIN last_plan
                       \/ last_plan["action"] \notin Labels))
        => /\ Called("csv")
           /\ log_retriever => Called("retrieve")

\* C19: once a LOGS_ONLY ask is consumed, last_csv_context is 'Skipped by
\* Planner'.
C19_LogsOnlySkipsCsv ==
    (pc = "done" /\ action = "LOGS_ONLY") => last_csv_context = <<"Skipped by Planner">>

\* C20: no step of an OUT_OF_SCOPE ask, from the call of ask on, changes an
\* attribute of the agent other than last_plan.
C20_OutOfScopeFrame ==
    [][(pc' = "created" \/ action' = "OUT_OF_SCOPE")
          => UNCHANGED <<last_log_context, last_csv_context, log_context, full_context_csv,
                         data_summary, csv_context, system_instruction, dfs, log_retriever>>]_vars

C20_Witness ==
    /\ pc = "done"
    /\ action = "OUT_OF_SCOPE"
    /\ last_plan["action"] = "OUT_OF_SCOPE"
    /\ last_log_context \notin {<<"No logs retrieved yet.">>, <<"Skipped by Planner">>}
    /\ last_csv_context # <<"No CSV context yet.">>
    /\ log_context # <<>>
    /\ full_context_csv # <<>>

\* C21: a failed LogRetriever construction does not stop the construction of
\* the agent; with log_retriever unset, an ask whose action is LOGS_ONLY or
\* BOTH makes no retrieval call, has the text 'Log analysis subsystem is
\* unavailable.' as log context in its prompt and as last_log_context, and
\* goes on to the synthesis call.
C21_NoRetrieverStillAnswers ==
    /\ (api_key /\ files = {"Manufacturing", "Performance", "Issues"} /\ pc # "unborn")
          => pc # "exited"
    /\ (~log_retriever /\ action \in {"LOGS_ONLY", "BOTH"}
        /\ pc \in {"synth", "streaming", "errored", "done"})
          => /\ ~Called("retrieve")
             /\ last_log_context = <<"Log analysis subsystem is unavailable.">>
             /\ Contains(system_instruction, "Log analysis subsystem is unavailable.")
             /\ sent_prompt # <<>> =>
                   Contains(sent_prompt, "Log analysis subsystem is unavailable.")
             /\ pc # "synth" => Called("synth") /\ sent_prompt # <<>>

C21_Witness ==
    /\ ~log_retriever
    /\ action = "LOGS_ONLY"
    /\ pc = "done"
    /\ Called("synth")
    /\ last_log_context = <<"Log analysis subsystem is unavailable.">>

\* the part of a prompt between the token before and the token after
Between(text, before, after) ==
    LET i == CHOOSE k \in DOMAIN text : text[k] = before
        j == CHOOSE k \in DOMAIN text : text[k] = after
    IN SubSeq(text, i + 1, j - 1)

\* C22: the prompt an ask sends, while asks of two sessions run interleaved
\* on the shared agent, carries that ask's own planning decision, the log
\* context its own Phase 2 obtained, and its own CSV context.
C22_PromptIsOwn ==
    \A s \in Sessions :
        threads[s].sent # <<>> =>
            /\ threads[s].sent[3] = threads[s].action
            /\ threads[s].sent[5] = threads[s].reason
            /\ Between(threads[s].sent,
                       "Additionally, you have access to recent production logs",
                       "--- INSTRUCTIONS ---") = threads[s].got_logs
            /\ threads[s].action \in {"CSV_ONLY", "BOTH"} =>
                  Between(threads[s].sent, "Reference Data for your analysis:",
                          "Additionally, you have access to recent production logs")
                      = CsvTables(dfs)

\* C23: after a script run of a session that has an answer of an in-scope
\* query displayed, the debug panel shows the log and CSV context that the
\* session's own ask stored for that answer.
C23_PanelShowsOwnContext ==
    \A s \in Sessions :
        (panel[s].shown /\ threads[s].pc = "none" /\ threads[s].captured # NoAttr) =>
            /\ panel[s].log = threads[s].captured[1]
            /\ panel[s].csv = threads[s].captured[2]

\* C24: a debug panel whose log tab shows a context without retrieved log
\* entries (skipped by the planner, subsystem unavailable, retrieval error)
\* has the warning 'No relevant logs found for this query.' as caption.
C24_NoLogsWarning ==
    \A s \in Sessions :
        (/\ panel[s].shown
         /\ \/ panel[s].log \in {<<"Skipped by Planner">>,
                                 <<"Log analysis subsystem is unavailable.">>}
            \/ panel[s].log[1] = "Error retrieving logs: ")
            => panel[s].caption = "No relevant logs found for this query."

\* C25: a slide_url in a session's state is the URL of a deck exported from
\* that session's current last_response_content; the step that saves a new
\* answer removes slide_url, and slide_url appears only in a step that
\* creates a deck from last_response_content.
C25_SlideUrlIsCurrent ==
    /\ [](\A s \in Sessions :
            "slide_url" \in DOMAIN session_state[s] =>
                \E i \in DOMAIN decks :
                    /\ session_state[s]["slide_url"]
                          = "https://docs.google.com/presentation/d/" \o decks[i].id
                    /\ decks[i].summary = session_state[s]["last_response_content"])
    /\ [][\A s \in Sessions :
            /\ (threads[s].pc = "exhausted" /\ threads'[s].pc = "none")
                  => "slide_url" \notin DOMAIN session_state'[s]
            /\ ("slide_url" \notin DOMAIN session_state[s]
                /\ "slide_url" \in DOMAIN session_state'[s])
                  => /\ Len(decks') = Len(decks) + 1
                     /\ session_state'[s]["slide_url"]
                           = "https://docs.google.com/presentation/d/"
                                 \o decks'[Len(decks')].id
                     /\ decks'[Len(decks')].summary
                           = session_state[s]["last_response_content"]
                     /\ session_state'[s]["last_response_content"]
                           = session_state[s]["last_response_content"]]_vars

C25_Witness ==
    /\ decks # <<>>
    /\ decks[1].summary = <<"a">>
    /\ \E s \in Sessions :
          /\ session_state[s] # NoSession
          /\ Len(session_state[s]["messages"]) = 4
          /\ session_state[s]["last_response_content"] # <<"a">>
    /\ \A s \in Sessions : "slide_url" \notin DOMAIN session_state[s]

\* C26: an ask whose generator is iterated to exhaustion ends, having made
\* at most one planning call, one log retrieval and three synthesis calls.
C26_AskTerminates ==
    /\ [](/\ CountOf("plan") <= 1
          /\ CountOf("retrieve") <= 1
          /\ CountOf("synth") <= 3)
    /\ (pc = "created") ~> (pc = "done")

C26_Witness ==
    /\ pc = "done"
    /\ CountOf("plan") = 1
    /\ CountOf("retrieve") = 1
    /\ CountOf("synth") = 3
    /\ CountOf("raise") = 2

====
